---- MODULE Spec2Model ----
(***************************************************************************)
(* Model of text-to-video-tool/app/page.tsx: the Home component's          *)
(* generation controller (generateVideo), its drive loop (renderFrame,     *)
(* requestStop), the MediaRecorder callbacks (ondataavailable, onstop,     *)
(* onerror) and the object-URL effect cleanup.                             *)
(*                                                                         *)
(* React state is a pair: the current value of each hook (videoUrl,        *)
(* progress, isGenerating, status, error, durationSeconds) and the values  *)
(* captured by the callbacks of the last render (rendered).  A setter      *)
(* changes the hook; the callback generateVideo and the effect cleanup     *)
(* read the values their render captured, until Render runs again.         *)
(*                                                                         *)
(* Spec is the controller.  SpecText applies wrapScriptIntoLines to the    *)
(* scripts a user can enter; a string is a sequence of characters.         *)
(* SpecDraw applies the text layer and the progress bar of drawVisualFrame *)
(* to line counts and normalized values; its numbers are exact fractions.  *)
(* SpecFair is the controller under the scheduling a session relies on.    *)
(***************************************************************************)
EXTENDS Integers, Sequences, FiniteSets, TLC

\* ---------------------------------------------------------------- bounds
MaxSessions == 2          \* generation sessions started in one behaviour
MaxClock == 13000         \* performance.now() stops advancing here (ms)

FrameGaps == {3000, 5000} \* time between two display refreshes (ms)
FrameLags == {0, 5000}    \* how far a frame's timestamp lies before "now"
Durations == {4}          \* values the duration slider is moved to (4..14)
ChunkSizes == {0, 1}      \* size of the Blob a dataavailable event carries
MaxEdits == 4             \* changes made to the script in one behaviour
MaxLines == 7             \* line counts 1..MaxLines handed to the renderer
GridPerLine == 4          \* normalized values tried per line segment

\* ------------------------------------------------------- program constants
DefaultDuration == 8
MsPerSecond == 1000

NoUrl == 0                \* videoUrl = null
NoError == "null"         \* error = null
None == "none"            \* pickSupportedMimeType found no candidate
NoBlob == [ parts |-> << >>, type |-> None ]   \* no object URL created

Candidates == << "video/webm;codecs=vp9", "video/webm;codecs=vp8", "video/webm" >>
Browsers == { {}, {"video/webm;codecs=vp8", "video/webm"} }

MsgCanvas == "Canvas is not ready. Please reload and try again."
MsgCodec == "This browser does not support the required WebM video codecs. Try Chrome or Edge."
MsgContext == "Unable to access the canvas drawing context."
MsgRecording == "Recording failed. Please try again."
MsgUnknown == "Something went wrong while generating the video."
MsgCause == "DOMException.message"

\* canvasRef.current is set once the component is mounted, and a canvas that
\* was given no other context type returns its 2d context.
CanvasRef == {TRUE}
Context2d == {TRUE}

Sessions == 1..MaxSessions

VARIABLES
  videoUrl,        \* useState: object URL of the last artifact, NoUrl = null
  progress,        \* useState: integer percentage
  isGenerating,    \* useState: busy flag
  status,          \* useState: "idle" | "recording" | "processing"
  error,           \* useState: last error message, NoError = null
  durationSeconds, \* useState: the slider's value
  rendered,        \* what the last render's closures captured
  mounted,         \* the component is mounted
  supported,       \* the types MediaRecorder.isTypeSupported accepts
  clock,           \* performance.now()
  frameStamp,      \* timestamp of the last display refresh
  sess,            \* one record per generateVideo invocation that reached try
  nSessions,       \* number of records of sess in use
  urls,            \* object URLs created: session -> the Blob behind it
  revoked,         \* object URLs revoked
  thrown,          \* history: an exception left generateVideo
  hist,            \* history: per-session observations
  script,          \* useState: the textarea's text
  memoScript,      \* useMemo: the script preparedLines was computed from
  preparedLines,   \* useMemo: wrapScriptIntoLines(script)
  edits,           \* number of changes made to the script
  painted          \* what drawVisualFrame last drew on the canvas

pageVars == << videoUrl, progress, isGenerating, status, error, durationSeconds,
               rendered, mounted, supported, clock, frameStamp, sess, nSessions,
               urls, revoked, thrown, hist >>

textVars == << script, memoScript, preparedLines, edits >>

vars == << pageVars, textVars, painted >>

\* ---------------------------------------------------------------- helpers
Max(a, b) == IF a > b THEN a ELSE b
Min(a, b) == IF a < b THEN a ELSE b

\* clamp(value, min, max) = Math.min(max, Math.max(min, value))
clamp(value, min, max) == Min(max, Max(min, value))

\* Math.round(x) for x = num/den >= 0, den > 0: floor(x + 1/2)
Round(num, den) == (2 * num + den) \div (2 * den)

\* candidates.find(isTypeSupported): the first supported candidate, else none
RECURSIVE FindFrom(_, _)
FindFrom(i, sup) ==
  IF i > Len(Candidates) THEN None
  ELSE IF Candidates[i] \in sup THEN Candidates[i]
  ELSE FindFrom(i + 1, sup)

\* pickSupportedMimeType falling back to the baseline container
pickBaseline ==
  IF FindFrom(1, supported) = None THEN Candidates[Len(Candidates)]
  ELSE FindFrom(1, supported)

pickSupportedMimeType == FindFrom(1, supported)

\* A setter of an unmounted component changes nothing.
Set(current, value) == IF mounted THEN value ELSE current

\* catch: caughtError instanceof Error ? caughtError.message : fallback
ErrorMessage(caught) ==
  IF caught = "DOMException" THEN MsgCause
  ELSE IF caught = "Error" THEN MsgRecording
  ELSE MsgUnknown

\* onerror: event.error ?? new Error("Recording failed. Please try again.")
RejectReason(eventError) ==
  IF eventError = "absent" THEN "Error" ELSE eventError

FreshSession ==
  [ phase |-> "unused",       \* unused | active (awaiting stopPromise) | ended
    outcome |-> "none",       \* none | artifact | error
    stream |-> "none",        \* activeStream: none | live | stopped
    enc |-> "none",           \* recorder: none | inactive | recording |
                              \*           flushing | stopping | done
    errored |-> FALSE,        \* the recorder fired its error event
    raf |-> FALSE,            \* animationFrame names a pending callback
    stopped |-> FALSE,        \* requestStop's flag
    promise |-> "none",       \* stopPromise: none | pending | resolved | rejected
    startStamp |-> 0,
    totalDuration |-> 0,
    mimeType |-> None,
    encoded |-> "none",       \* frames the recorder took: none | some | final
                              \* (final: the frame drawn at normalized = 1 too)
    chunks |-> << >> ]

FreshHist ==
  [ prevUrl |-> NoUrl,        \* the hook videoUrl when the session began
    prevLive |-> FALSE,       \* ... and whether that URL was still usable
    procEntries |-> 0,        \* times the session set status "processing"
    procNormalized |-> TRUE,  \* each such entry was on a tick with normalized = 1
    installs |-> 0,           \* setVideoUrl calls
    tornDown |-> FALSE,       \* unmounted while the session was recording
    failed |-> FALSE,         \* catch ran for the session
    ticked |-> FALSE,         \* renderFrame ran for the session
    strict |-> TRUE ]         \* each tick's normalized exceeded the one before

\* ------------------------------------------------------------- the segmenter
\* A string is a sequence of characters; these are the characters \s matches.
LF == "\n"
CR == "\r"
TAB == "\t"
WhiteSpace == {" ", LF, CR, TAB}

\* [.!?]
Terminators == {".", "!", "?"}

\* entry.length <= 42, candidate.length > 42
LineBudget == 42

\* DEFAULT_SCRIPT
DefaultScript ==
  << "W", "e", "l", "c", "o", "m", "e", " ", "t", "o", " ", "t", "h", "e",
     " ", "f", "u", "t", "u", "r", "e", " ", "o", "f", " ", "t", "e", "x",
     "t", "-", "t", "o", "-", "v", "i", "d", "e", "o", ".", LF, "E", "v",
     "e", "r", "y", " ", "w", "o", "r", "d", " ", "c", "o", "m", "e", "s",
     " ", "t", "o", " ", "l", "i", "f", "e", " ", "w", "i", "t", "h", " ",
     "c", "i", "n", "e", "m", "a", "t", "i", "c", " ", "m", "o", "t", "i",
     "o", "n", ".", LF, "C", "r", "a", "f", "t", " ", "c", "a", "p", "t",
     "i", "v", "a", "t", "i", "n", "g", " ", "s", "t", "o", "r", "i", "e",
     "s", " ", "i", "n", " ", "s", "e", "c", "o", "n", "d", "s", "." >>

\* "Your story starts here."
Fallback ==
  << "Y", "o", "u", "r", " ", "s", "t", "o", "r", "y", " ", "s", "t", "a",
     "r", "t", "s", " ", "h", "e", "r", "e", "." >>

Least(S) == CHOOSE x \in S : \A y \in S : x <= y
Greatest(S) == CHOOSE x \in S : \A y \in S : y <= x

\* the positions of s that hold no whitespace
Inked(s) == { i \in 1..Len(s) : s[i] \notin WhiteSpace }

\* String.prototype.trim
trim(s) ==
  IF Inked(s) = {} THEN << >>
  ELSE SubSeq(s, Least(Inked(s)), Greatest(Inked(s)))

\* the end of the run of whitespace that starts at i
RunEnd(s, i) ==
  Least({ j \in i..(Len(s) + 1) : j = Len(s) + 1 \/ s[j] \notin WhiteSpace })

\* String.prototype.split for matches that are not empty: seps holds the
\* matches as << first, last >> positions, the result the text between them
Split(s, seps) ==
  LET n == Cardinality(seps)
      sorted == [ j \in 1..n |->
                    CHOOSE m \in seps :
                      Cardinality({ q \in seps : q[1] < m[1] }) = j - 1 ]
  IN [ j \in 1..(n + 1) |->
         SubSeq(s, IF j = 1 THEN 1 ELSE sorted[j - 1][2] + 1,
                   IF j = n + 1 THEN Len(s) ELSE sorted[j][1] - 1) ]

\* the matches of /\r?\n/
LineBreaks(s) ==
  { << IF i > 1 /\ s[i - 1] = CR THEN i - 1 ELSE i, i >> :
      i \in { k \in 1..Len(s) : s[k] = LF } }

\* the matches of /(?<=[.!?])\s+/
SentenceGaps(s) ==
  { << i, RunEnd(s, i) - 1 >> :
      i \in { k \in 2..Len(s) :
                s[k] \in WhiteSpace /\ s[k - 1] \in Terminators } }

\* the matches of /\s+/
WordGaps(s) ==
  { << i, RunEnd(s, i) - 1 >> :
      i \in { k \in 1..Len(s) :
                s[k] \in WhiteSpace /\ (k = 1 \/ s[k - 1] \notin WhiteSpace) } }

\* line.trim().split(...).map((part) => part.trim())
Parts(line) ==
  LET parts == Split(trim(line), SentenceGaps(trim(line)))
  IN [ k \in 1..Len(parts) |-> trim(parts[k]) ]

\* flatMap over the pieces from i on
RECURSIVE FlatMap(_, _)
FlatMap(pieces, i) ==
  IF i > Len(pieces) THEN << >>
  ELSE Parts(pieces[i]) \o FlatMap(pieces, i + 1)

\* Boolean(part): a string is truthy when it is not empty
Truthy(part) == part # << >>

\* const normalized = script.split(...).flatMap(...).filter(Boolean)
Normalized(text) ==
  SelectSeq(FlatMap(Split(text, LineBreaks(text)), 1), Truthy)

\* Overflows with the limit one character further
OverflowsLate(candidate) == Len(candidate) > LineBudget + 1

\* candidate.length > 42
Overflows(candidate) == Len(candidate) > LineBudget

\* Flush that never pushes
FlushNothing(lines, current) == lines

\* if (current) lines.push(current)
Flush(lines, current) ==
  IF Truthy(current) THEN Append(lines, current) ELSE lines

\* words.forEach(...) and the push after it
RECURSIVE PackWords(_, _, _, _)
PackWords(words, i, current, lines) ==
  IF i > Len(words) THEN Flush(lines, current)
  ELSE LET word == words[i]
           candidate == IF Truthy(current) THEN current \o << " " >> \o word
                        ELSE word
       IN IF Overflows(candidate)
          THEN PackWords(words, i + 1, word, Flush(lines, current))
          ELSE PackWords(words, i + 1, candidate, lines)

\* normalized.forEach(...) from entry i on
RECURSIVE WrapEntries(_, _, _)
WrapEntries(normalized, i, lines) ==
  IF i > Len(normalized) THEN lines
  ELSE LET entry == normalized[i]
       IN WrapEntries(normalized, i + 1,
            IF Len(entry) <= LineBudget THEN Append(lines, entry)
            ELSE PackWords(Split(entry, WordGaps(entry)), 1, << >>, lines))

\* OrFallback that returns the lines as they are
NoFallback(lines) == lines

\* return lines.length > 0 ? lines : ["Your story starts here."]
OrFallback(lines) == IF Len(lines) > 0 THEN lines ELSE << Fallback >>

wrapScriptIntoLines(text) ==
  OrFallback(WrapEntries(Normalized(text), 1, << >>))

\* what the textarea receives: words of 1, 21 and 43 characters, a sentence
\* end, a space, a line feed, a carriage return
Word(ch, n) == [ k \in 1..n |-> ch ]
Tokens == { Word("a", 1), Word("b", 21), Word("c", 43),
            << "." >>, << " " >>, << LF >>, << CR >> }

\* -------------------------------------------------------------- the renderer
\* A number of the renderer is an exact fraction in lowest terms, den > 0.
RECURSIVE Gcd(_, _)
Gcd(a, b) == IF b = 0 THEN a ELSE Gcd(b, a % b)

Abs(a) == IF a < 0 THEN 0 - a ELSE a

Frac(num, den) ==
  LET g == Gcd(Abs(num), den)
  IN [ num |-> num \div g, den |-> den \div g ]

Zero == Frac(0, 1)
One == Frac(1, 1)

FracSub(x, y) == Frac(x.num * y.den - y.num * x.den, x.den * y.den)

\* x / y for y > 0, reduced before multiplying
FracDiv(x, y) ==
  LET g == Gcd(Abs(x.num), y.num)
      h == Gcd(y.den, x.den)
  IN [ num |-> (x.num \div g) * (y.den \div h),
       den |-> (x.den \div h) * (y.num \div g) ]

FracLeq(x, y) == x.num * y.den <= y.num * x.den

\* Math.max
FracMax(x, y) == IF FracLeq(x, y) THEN y ELSE x

\* 0.0001 = 1 / 10000
SpanFloorInverse == 10000

\* const width = 1280
Width == 1280

\* clamp(value) with the defaults min = 0, max = 1
clampUnit(value) ==
  IF value.num <= 0 THEN Zero
  ELSE IF value.num >= value.den THEN One
  ELSE value

\* t < 0.5 ? 4 * t * t * t : 1 - Math.pow(-2 * t + 2, 3) / 2
easeInOutCubic(t) ==
  IF 2 * t.num < t.den
  THEN Frac(4 * t.num * t.num * t.num, t.den * t.den * t.den)
  ELSE LET u == Frac(2 * t.den - 2 * t.num, t.den)
           cube == u.num * u.num * u.num
           half == 2 * u.den * u.den * u.den
       IN Frac(half - cube, half)

\* Math.max(segmentEnd - segmentStart, 0.0001)
Span(segmentStart, segmentEnd) ==
  FracMax(FracSub(segmentEnd, segmentStart), Frac(1, SpanFloorInverse))

\* ctx.globalAlpha of line index among count lines
LineAlpha(normalized, index, count) ==
  LET segmentStart == Frac(index, count)
      segmentEnd == Frac(index + 1, count)
      segmentProgress ==
        clampUnit(FracDiv(FracSub(normalized, segmentStart),
                          Span(segmentStart, segmentEnd)))
  IN easeInOutCubic(segmentProgress)

\* progressWidth = width * 0.6
ProgressWidth == Frac(Width * 6, 10)

\* the canvas before anything is drawn
Blank == [ progress |-> Zero, alpha |-> << >>, bar |-> Zero ]

\* the text layer and the progress bar of drawVisualFrame: alpha[k] is the
\* opacity of line k - 1, bar the width of the filled part of the track
drawVisualFrame(normalized, count) ==
  [ progress |-> normalized,
    alpha |-> [ k \in 1..count |-> LineAlpha(normalized, k - 1, count) ],
    bar |-> Frac(ProgressWidth.num * normalized.num,
                 ProgressWidth.den * normalized.den) ]

\* -------------------------------------------------------------------- Home
Init ==
  /\ videoUrl = NoUrl
  /\ progress = 0
  /\ isGenerating = FALSE
  /\ status = "idle"
  /\ error = NoError
  /\ durationSeconds = DefaultDuration
  /\ rendered = [ isGenerating |-> FALSE, videoUrl |-> NoUrl,
                  durationSeconds |-> DefaultDuration ]
  /\ mounted = TRUE
  /\ supported \in Browsers
  /\ clock = 0
  /\ frameStamp = 0
  /\ sess = [ s \in Sessions |-> FreshSession ]
  /\ nSessions = 0
  /\ urls = [ s \in Sessions |-> NoBlob ]
  /\ revoked = {}
  /\ thrown = FALSE
  /\ hist = [ s \in Sessions |-> FreshHist ]
  /\ script = DefaultScript
  /\ memoScript = DefaultScript
  /\ preparedLines = wrapScriptIntoLines(DefaultScript)
  /\ edits = 0
  /\ painted = Blank

\* ------------------------------------------------------------- generateVideo
\* The steps of the try block that can throw, and whether try covers them.
FailPoints == {"none", "captureStream", "MediaRecorder", "start"}
TryCoversLate(point) == point \in {"MediaRecorder", "start"}
TryCovers(point) == point \in {"captureStream", "MediaRecorder", "start"}

\* Released without the track.stop() loop
ReleasedKeepsStream(r) == [ r EXCEPT !.raf = FALSE ]

\* finally: cancelAnimationFrame, stop the tracks of an open stream
Released(r) ==
  [ r EXCEPT !.raf = FALSE,
             !.stream = IF r.stream = "none" THEN "none" ELSE "stopped" ]

\* The record of a session after the synchronous part of generateVideo.
Started(point, mimeType) ==
  LET base == [ FreshSession EXCEPT !.mimeType = mimeType ]
      failed(r) == Released([ r EXCEPT !.phase = "ended", !.outcome = "error" ])
  IN CASE point = "captureStream" -> failed(base)
       [] point = "MediaRecorder" -> failed([ base EXCEPT !.stream = "live" ])
       [] point = "start" ->
            failed([ base EXCEPT !.stream = "live", !.enc = "inactive",
                                 !.promise = "pending" ])
       [] OTHER ->
            [ base EXCEPT !.phase = "active", !.stream = "live",
                          !.enc = "recording", !.promise = "pending",
                          !.raf = TRUE, !.stopped = FALSE,
                          !.startStamp = clock,
                          !.totalDuration = rendered.durationSeconds * MsPerSecond ]

\* if (isGenerating) return;
GenerateVideoBusy ==
  /\ mounted
  /\ rendered.isGenerating
  /\ UNCHANGED << videoUrl, progress, isGenerating, status, error,
                  durationSeconds, rendered, mounted, supported, clock,
                  frameStamp, sess, nSessions, urls, revoked, thrown, hist >>
  /\ UNCHANGED << textVars, painted >>

\* the three early returns that record an error: no canvas, no mime type,
\* no drawing context
GenerateVideoRejected(canvas, context) ==
  /\ mounted
  /\ ~rendered.isGenerating
  /\ ~canvas \/ pickSupportedMimeType = None \/ ~context
  /\ error' = IF ~canvas THEN MsgCanvas
              ELSE IF pickSupportedMimeType = None THEN MsgCodec
              ELSE MsgContext
  /\ UNCHANGED << videoUrl, progress, isGenerating, status, durationSeconds,
                  rendered, mounted, supported, clock, frameStamp, sess,
                  nSessions, urls, revoked, thrown, hist >>
  /\ UNCHANGED << textVars, painted >>

\* from the revoke of the previous URL to "await stopPromise", or through
\* catch and finally when captureStream, the constructor or start() throws
GenerateVideoStart(point) ==
  LET s == nSessions + 1
      previousUrl == rendered.videoUrl
  IN
  /\ mounted
  /\ ~rendered.isGenerating
  /\ pickSupportedMimeType # None
  /\ nSessions < MaxSessions
  /\ nSessions' = s
  /\ revoked' = IF previousUrl # NoUrl THEN revoked \cup {previousUrl}
                ELSE revoked
  /\ sess' = [ sess EXCEPT ![s] = Started(point, pickSupportedMimeType) ]
  /\ hist' = [ hist EXCEPT ![s].prevUrl = videoUrl,
                           ![s].prevLive = (videoUrl # NoUrl /\ videoUrl \notin revoked),
                           ![s].failed = (point # "none") ]
  /\ progress' = IF point \in {"none", "start"} THEN 0 ELSE progress
  /\ isGenerating' = (point = "none")
  /\ status' = IF point = "none" THEN "recording" ELSE "idle"
  /\ error' = IF point = "none" THEN NoError ELSE ErrorMessage("DOMException")
  /\ thrown' = (thrown \/ (point # "none" /\ ~TryCovers(point)))
  /\ UNCHANGED << videoUrl, durationSeconds, rendered, mounted, supported,
                  clock, frameStamp, urls >>
  /\ UNCHANGED << textVars, painted >>

\* ------------------------------------------------------------ the drive loop
\* The controller as the callbacks of one display refresh see and change it.
Ctl == [ progress |-> progress, status |-> status, sess |-> sess, hist |-> hist,
         painted |-> painted ]

\* requestStop that leaves the recorder recording
requestStopOnlyFlags(c, s, atEnd) ==
  IF c.sess[s].stopped THEN c
  ELSE [ c EXCEPT !.sess[s].stopped = TRUE,
                  !.status = Set(c.status, "processing"),
                  !.hist[s].procEntries = @ + 1,
                  !.hist[s].procNormalized = (@ /\ atEnd) ]

\* requestStop: once, set status "processing" and stop the recorder
requestStop(c, s, atEnd) ==
  IF c.sess[s].stopped THEN c
  ELSE [ c EXCEPT !.sess[s].stopped = TRUE,
                  !.status = Set(c.status, "processing"),
                  !.sess[s].enc = IF @ = "recording" THEN "flushing" ELSE @,
                  !.hist[s].procEntries = @ + 1,
                  !.hist[s].procNormalized = (@ /\ atEnd) ]

\* elapsed clamped to 0..totalDuration: normalized = Elapsed / totalDuration
Elapsed(r, now) == clamp(now - r.startStamp, 0, r.totalDuration)

\* Math.round(normalized * 100)
NextProgress(r, now) == Round(Elapsed(r, now) * 100, r.totalDuration)

\* KeepMax without the running maximum: setProgress(nextProgress)
KeepLast(current, nextProgress) == nextProgress

\* setProgress((current) => nextProgress > current ? nextProgress : current)
KeepMax(current, nextProgress) ==
  IF nextProgress > current THEN nextProgress ELSE current

\* renderFrame that leaves its callback requested after normalized = 1
renderFrameAgain(c, s, now) ==
  LET r == c.sess[s]
      atEnd == Elapsed(r, now) = r.totalDuration
      drawn == [ c EXCEPT
                   !.painted = drawVisualFrame(Frac(Elapsed(r, now), r.totalDuration),
                                               Len(preparedLines)),
                   !.progress = Set(c.progress, KeepMax(c.progress, NextProgress(r, now))),
                   !.hist[s].ticked = TRUE,
                   !.hist[s].strict =
                       (@ /\ (c.hist[s].ticked =>
                                 Elapsed(r, now) > Elapsed(r, frameStamp))) ]
  IN IF ~atEnd THEN drawn
     ELSE requestStop(drawn, s, atEnd)

\* renderFrame(now) of session s
renderFrame(c, s, now) ==
  LET r == c.sess[s]
      atEnd == Elapsed(r, now) = r.totalDuration       \* normalized = 1
      drawn == [ c EXCEPT
                   !.painted = drawVisualFrame(Frac(Elapsed(r, now), r.totalDuration),
                                               Len(preparedLines)),
                   !.progress = Set(c.progress, KeepMax(c.progress, NextProgress(r, now))),
                   !.hist[s].ticked = TRUE,
                   !.hist[s].strict =
                       (@ /\ (c.hist[s].ticked =>
                                 Elapsed(r, now) > Elapsed(r, frameStamp))) ]
  IN IF ~atEnd THEN drawn                              \* requestAnimationFrame
     ELSE requestStop([ drawn EXCEPT !.sess[s].raf = FALSE ], s, atEnd)

\* the callbacks of one refresh, in the order they were requested
RECURSIVE RunCallbacks(_, _, _)
RunCallbacks(c, s, now) ==
  IF s > MaxSessions THEN c
  ELSE RunCallbacks(IF c.sess[s].raf THEN renderFrame(c, s, now) ELSE c,
                    s + 1, now)

\* canvas.captureStream: after the callbacks of a refresh the stream of each
\* session that drew samples the canvas.  A recorder that is recording takes
\* the frame; one that stop() just made inactive takes it or drops it.
Sampled(before, after) ==
  [ s \in Sessions |->
      IF before[s].raf /\ after[s].stream = "live"
      THEN [ after[s] EXCEPT !.encoded = IF after[s].stopped THEN "final"
                                         ELSE "some" ]
      ELSE after[s] ]

\* A refresh is due while a callback is requested: time passes, and the
\* timestamp the callbacks get is not earlier than the last one.
FrameDue(gap, lag) ==
  /\ \E s \in Sessions : sess[s].raf
  /\ clock + gap <= MaxClock
  /\ clock + gap - lag >= frameStamp
  /\ clock' = clock + gap

\* A display refresh: time has passed, every requested callback runs, and
\* the canvas is sampled or (frame rate, inactive recorder) the frame is lost.
Frame(gap, lag, sampled) ==
  LET now == clock + gap - lag
      c == RunCallbacks(Ctl, 1, now)
  IN
  /\ FrameDue(gap, lag)
  /\ frameStamp' = now
  /\ progress' = c.progress
  /\ status' = c.status
  /\ sess' = IF sampled THEN Sampled(sess, c.sess) ELSE c.sess
  /\ hist' = c.hist
  /\ painted' = c.painted
  /\ UNCHANGED << videoUrl, isGenerating, error, durationSeconds, rendered,
                  mounted, supported, nSessions, urls, revoked, thrown >>
  /\ UNCHANGED textVars

\* ------------------------------------------------------ the recorder's events
\* recorder.ondataavailable: a chunk of size > 0 is kept
RecorderData(s, size) ==
  /\ sess[s].enc = "flushing"
  /\ sess[s].encoded # "none" => size > 0
  /\ sess' = [ sess EXCEPT ![s].enc = "stopping",
                           ![s].chunks =
                              IF size > 0
                              THEN Append(@, [ of |-> s, size |-> size,
                                               final |-> sess[s].encoded = "final" ])
                              ELSE @ ]
  /\ UNCHANGED << videoUrl, progress, isGenerating, status, error,
                  durationSeconds, rendered, mounted, supported, clock,
                  frameStamp, nSessions, urls, revoked, thrown,
                  hist >>
  /\ UNCHANGED << textVars, painted >>

\* Settles for a promise that settles again after it was rejected
SettlesAgain(r) == r.promise # "resolved"

\* Settles for a promise that could settle again
SettlesAlways(r) == TRUE

\* A promise settles once: resolve and reject of a settled promise do nothing.
Settles(r) == r.promise = "pending"

\* NewBlob declaring the baseline type instead of the negotiated one
NewBlobBaseline(r) == [ parts |-> r.chunks, type |-> Candidates[Len(Candidates)] ]

\* new Blob(chunks, { type: mimeType })
NewBlob(r) == [ parts |-> r.chunks, type |-> r.mimeType ]

\* recorder.onstop: resolve; then the rest of try (createObjectURL,
\* setVideoUrl, setStatus, setProgress) and finally
RecorderStop(s) ==
  /\ sess[s].enc = "stopping"
  /\ IF Settles(sess[s])
     THEN /\ sess' = [ sess EXCEPT ![s] = Released([ @ EXCEPT
                          !.enc = "done", !.promise = "resolved",
                          !.phase = "ended", !.outcome = "artifact" ]) ]
          /\ urls' = [ urls EXCEPT ![s] = NewBlob(sess[s]) ]
          /\ videoUrl' = Set(videoUrl, s)
          /\ status' = Set(status, "idle")
          /\ progress' = Set(progress, 100)
          /\ isGenerating' = Set(isGenerating, FALSE)
          /\ hist' = [ hist EXCEPT ![s].installs = @ + 1 ]
     ELSE /\ sess' = [ sess EXCEPT ![s].enc = "done" ]
          /\ UNCHANGED << urls, videoUrl, status, progress, isGenerating, hist >>
  /\ UNCHANGED << error, durationSeconds, rendered, mounted, supported, clock,
                  frameStamp, nSessions, revoked, thrown >>
  /\ UNCHANGED << textVars, painted >>

\* Inactivated with a recorder that goes on recording after its error
StillRecording(enc) == enc

\* the recorder that raises onerror: an error while recording has made it
\* inactive, it flushes its data and fires stop
Inactivated(enc) == IF enc = "recording" THEN "flushing" ELSE enc

\* recorder.onerror: reject; then catch (setError, setStatus) and finally.
RecorderError(s, eventError) ==
  LET after == Inactivated(sess[s].enc)
  IN
  /\ sess[s].enc \in {"recording", "flushing", "stopping", "done"}
  /\ ~sess[s].errored
  /\ IF Settles(sess[s])
     THEN /\ sess' = [ sess EXCEPT ![s] = Released([ @ EXCEPT
                          !.enc = after, !.errored = TRUE,
                          !.promise = "rejected",
                          !.phase = "ended", !.outcome = "error" ]) ]
          /\ error' = Set(error, ErrorMessage(RejectReason(eventError)))
          /\ status' = Set(status, "idle")
          /\ isGenerating' = Set(isGenerating, FALSE)
          /\ hist' = [ hist EXCEPT ![s].failed = TRUE ]
     ELSE /\ sess' = [ sess EXCEPT ![s].enc = after, ![s].errored = TRUE ]
          /\ UNCHANGED << error, status, isGenerating, hist >>
  /\ UNCHANGED << videoUrl, progress, durationSeconds, rendered, mounted,
                  supported, clock, frameStamp, nSessions, urls, revoked,
                  thrown >>
  /\ UNCHANGED << textVars, painted >>

\* ------------------------------------------------------------------- React
Snapshot == [ isGenerating |-> isGenerating, videoUrl |-> videoUrl,
              durationSeconds |-> durationSeconds ]

\* useEffect(() => () => { if (videoUrl) URL.revokeObjectURL(videoUrl) })
Cleanup == IF rendered.videoUrl # NoUrl THEN revoked \cup {rendered.videoUrl}
           ELSE revoked

\* A render after a state change: the callbacks capture the new values, and
\* the effect of a changed videoUrl runs the cleanup of the previous one.
Render ==
  /\ mounted
  /\ rendered # Snapshot
  /\ rendered' = Snapshot
  /\ revoked' = IF videoUrl # rendered.videoUrl THEN Cleanup ELSE revoked
  /\ UNCHANGED << videoUrl, progress, isGenerating, status, error,
                  durationSeconds, mounted, supported, clock, frameStamp, sess,
                  nSessions, urls, thrown, hist >>
  /\ UNCHANGED << textVars, painted >>

\* The component is unmounted: only the effect's cleanup runs.
Unmount ==
  /\ mounted
  /\ mounted' = FALSE
  /\ revoked' = Cleanup
  /\ hist' = [ s \in Sessions |->
                 [ hist[s] EXCEPT !.tornDown =
                     (sess[s].phase = "active" /\ ~sess[s].stopped) ] ]
  /\ UNCHANGED << videoUrl, progress, isGenerating, status, error,
                  durationSeconds, rendered, supported, clock, frameStamp,
                  sess, nSessions, urls, thrown >>
  /\ UNCHANGED << textVars, painted >>

\* the duration slider, disabled while the render shows isGenerating
SetDurationSeconds(value) ==
  /\ mounted
  /\ ~rendered.isGenerating
  /\ value # durationSeconds
  /\ durationSeconds' = value
  /\ UNCHANGED << videoUrl, progress, isGenerating, status, error, rendered,
                  mounted, supported, clock, frameStamp, sess, nSessions, urls,
                  revoked, thrown, hist >>
  /\ UNCHANGED << textVars, painted >>

\* ----------------------------------------------- the script and its lines
\* textarea onChange: setScript(event.target.value)
SetScript(value) ==
  /\ mounted
  /\ ~rendered.isGenerating
  /\ memoScript = script
  /\ edits < MaxEdits
  /\ script' = value
  /\ edits' = edits + 1
  /\ UNCHANGED << pageVars, memoScript, preparedLines, painted >>

\* "Use Sample Script": setScript(DEFAULT_SCRIPT)
resetToSample ==
  /\ mounted
  /\ ~rendered.isGenerating
  /\ memoScript = script
  /\ edits < MaxEdits
  /\ script' = DefaultScript
  /\ edits' = edits + 1
  /\ UNCHANGED << pageVars, memoScript, preparedLines, painted >>

\* the render after a change of script: useMemo computes the lines again
PrepareLines ==
  /\ mounted
  /\ memoScript # script
  /\ memoScript' = script
  /\ preparedLines' = wrapScriptIntoLines(script)
  /\ UNCHANGED << pageVars, script, edits, painted >>

\* one call drawVisualFrame(ctx, width, height, normalized, lines, style) with
\* lines.length = count
DrawVisualFrame(normalized, count) ==
  /\ painted' = drawVisualFrame(normalized, count)
  /\ UNCHANGED << pageVars, textVars >>

\* line counts, and normalized values on a grid of GridPerLine per segment
LineCounts == 1..MaxLines
LongLineCounts == {12500}
ProgressSteps(count) ==
  { Frac(k, GridPerLine * count) : k \in 0..(GridPerLine * count) }
EndSteps(count) ==
  { Frac(k, GridPerLine * count) :
      k \in { GridPerLine * count - 1, GridPerLine * count } }

Next ==
  \/ GenerateVideoBusy
  \/ \E canvas \in CanvasRef, context \in Context2d :
        GenerateVideoRejected(canvas, context)
  \/ \E point \in FailPoints : GenerateVideoStart(point)
  \/ \E gap \in FrameGaps, lag \in FrameLags, sampled \in BOOLEAN :
        Frame(gap, lag, sampled)
  \/ \E s \in Sessions, size \in ChunkSizes : RecorderData(s, size)
  \/ \E s \in Sessions : RecorderStop(s)
  \/ \E s \in Sessions, e \in {"DOMException", "absent"} : RecorderError(s, e)
  \/ Render
  \/ Unmount
  \/ \E value \in Durations : SetDurationSeconds(value)

Spec == Init /\ [][Next]_vars

\* the segmenter on the scripts a user can enter
NextText ==
  \/ \E token \in Tokens : SetScript(script \o token)
  \/ SetScript(<< >>)
  \/ resetToSample
  \/ PrepareLines

SpecText == Init /\ [][NextText]_vars

\* the renderer on line counts and normalized values
NextDraw ==
  \/ \E count \in LineCounts :
        \E normalized \in ProgressSteps(count) :
          DrawVisualFrame(normalized, count)
  \/ \E count \in LongLineCounts :
        \E normalized \in EndSteps(count) :
          DrawVisualFrame(normalized, count)

SpecDraw == Init /\ [][NextDraw]_vars

\* The scheduling a running session relies on: the display keeps delivering
\* refreshes while a callback is requested, and a recorder that was stopped
\* delivers its data and then fires stop.  Frame is the only action that
\* changes clock, so the steps of FrameDue that change clock are the Frame
\* steps, and a Frame step is enabled exactly when FrameDue is.
Fairness ==
  /\ WF_clock(\E gap \in FrameGaps, lag \in FrameLags : FrameDue(gap, lag))
  /\ \A s \in Sessions :
        /\ WF_vars(\E size \in ChunkSizes : RecorderData(s, size))
        /\ WF_vars(RecorderStop(s))

\* the controller with every refresh sampled by the capture stream
NextFair ==
  \/ GenerateVideoBusy
  \/ \E canvas \in CanvasRef, context \in Context2d :
        GenerateVideoRejected(canvas, context)
  \/ \E point \in FailPoints : GenerateVideoStart(point)
  \/ \E gap \in FrameGaps, lag \in FrameLags : Frame(gap, lag, TRUE)
  \/ \E s \in Sessions, size \in ChunkSizes : RecorderData(s, size)
  \/ \E s \in Sessions : RecorderStop(s)
  \/ \E s \in Sessions, e \in {"DOMException", "absent"} : RecorderError(s, e)
  \/ Render
  \/ Unmount
  \/ \E value \in Durations : SetDurationSeconds(value)

\* the controller under that scheduling
SpecFair == Init /\ [][NextFair]_vars /\ Fairness

\* ================================================================== claims
Active == { s \in Sessions : sess[s].phase = "active" }

\* the step in which catch runs for session s
Fails(s) == ~hist[s].failed /\ hist'[s].failed

\* the step in which the rest of try runs for session s after stopPromise
Succeeds(s) == sess[s].outcome = "none" /\ sess'[s].outcome = "artifact"

\* C1: at most one generation session is active at any time, whatever the
\* interleaving of generateVideo invocations and renders.
C1_OneActiveSession == Cardinality(Active) <= 1

\* C2: progress stays in 0..100, and no step other than the reset to 0 that
\* begins a session (a tick, an encoder event, a session's end) decreases it.
C2_ProgressMonotone ==
  [][ /\ progress' \in 0..100
      /\ nSessions' = nSessions => progress' >= progress ]_vars

\* C2 witness: a session is recording, its last tick computed a percentage
\* above 0 and below the progress that is reported.
C2_Witness ==
  \E s \in Sessions :
    /\ sess[s].phase = "active" /\ sess[s].raf
    /\ NextProgress(sess[s], frameStamp) > 0
    /\ NextProgress(sess[s], frameStamp) < progress
    /\ progress < 100

\* C3: when a session fails (captureStream, the MediaRecorder constructor or
\* start() throws, or the recorder reports an error while recording or
\* processing) the mounted component reads status idle, isGenerating false
\* and a non-null error, and no exception has left generateVideo.
C3_FailureReturnsToIdle ==
  [][ \A s \in Sessions :
        Fails(s) =>
          /\ ~thrown'
          /\ mounted' => /\ status' = "idle"
                         /\ isGenerating' = FALSE
                         /\ error' # NoError ]_vars

\* C3 witness: a session failed by an encoder error after requestStop
\* (status processing) and the controller is idle with the error recorded.
C3_Witness ==
  \E s \in Sessions :
    /\ hist[s].failed /\ sess[s].stopped /\ sess[s].errored
    /\ mounted /\ status = "idle" /\ ~isGenerating /\ error = MsgRecording

\* C4: a session that has ended has no callback requested from
\* requestAnimationFrame, and the tracks of its stream, if it opened one, are
\* stopped.
C4_ReleasedOnExit ==
  \A s \in Sessions :
    sess[s].phase = "ended" => ~sess[s].raf /\ sess[s].stream # "live"

\* C4 witness: a session ended by an encoder error while recording, with a
\* tick still requested, and its stream is stopped.
C4_Witness ==
  \E s \in Sessions :
    /\ sess[s].phase = "ended" /\ sess[s].outcome = "error"
    /\ sess[s].errored /\ ~sess[s].stopped
    /\ sess[s].stream = "stopped" /\ ~sess[s].raf

\* C5: status changes only idle -> recording, recording -> processing,
\* processing -> idle and recording -> idle, and a session sets processing
\* at most once, on a tick with normalized = 1.
C5_StatusTransitions ==
  [][ /\ status' # status =>
           << status, status' >> \in { << "idle", "recording" >>,
                                       << "recording", "processing" >>,
                                       << "processing", "idle" >>,
                                       << "recording", "idle" >> }
      /\ \A s \in Sessions :
           hist'[s].procEntries <= 1 /\ hist'[s].procNormalized ]_vars

\* C6: the step that ends a session without failure creates one object URL
\* for a Blob of the session's chunks with the negotiated mime type, and the
\* mounted component then reads that URL as videoUrl, status idle and
\* progress 100; a session installs at most once.
C6_OneArtifact ==
  [][ \A s \in Sessions :
        /\ hist'[s].installs <= 1
        /\ Succeeds(s) =>
             /\ urls'[s] = [ parts |-> sess[s].chunks,
                             type |-> pickSupportedMimeType ]
             /\ hist'[s].installs = 1
             /\ mounted' => /\ videoUrl' = s
                            /\ status' = "idle"
                            /\ progress' = 100 ]_vars

\* C6 witness: a session ended with an artifact that holds a chunk, and the
\* controller is idle at progress 100 with that artifact.
C6_Witness ==
  \E s \in Sessions :
    /\ sess[s].outcome = "artifact" /\ Len(sess[s].chunks) > 0
    /\ urls[s] # NoBlob /\ videoUrl = s
    /\ status = "idle" /\ progress = 100 /\ ~isGenerating

\* MediaRecorder.isTypeSupported accepts none of the candidates
NoneSupported == \A i \in 1..Len(Candidates) : Candidates[i] \notin supported

\* C7: where no candidate type is supported, status is idle, the busy flag
\* is false, no stream, recorder or drive loop exists, progress and videoUrl
\* have their initial values, and the only error ever recorded is the codec
\* message.
C7_UnsupportedNeverRecords ==
  NoneSupported =>
    /\ status = "idle" /\ ~isGenerating
    /\ nSessions = 0
    /\ \A s \in Sessions : sess[s] = FreshSession
    /\ progress = 0 /\ videoUrl = NoUrl
    /\ error \in {NoError, MsgCodec}

\* C7 witness: generateVideo was invoked where nothing is supported.
C7_Witness == NoneSupported /\ error = MsgCodec

\* C8: once the component was torn down while a session was recording, that
\* session has no tick requested and the tracks of its stream are stopped.
C8_TeardownReleases ==
  \A s \in Sessions :
    hist[s].tornDown => ~sess[s].raf /\ sess[s].stream = "stopped"

\* C9: a session for which catch ran never has an object URL created from
\* its chunks, and videoUrl never names one.
C9_NoPartialArtifact ==
  \A s \in Sessions :
    hist[s].failed => urls[s] = NoBlob /\ videoUrl # s /\ hist[s].installs = 0

\* C9 witness: after a session failed, its recorder delivered a chunk and
\* fired stop.
C9_Witness ==
  \E s \in Sessions :
    /\ hist[s].failed /\ sess[s].enc = "done" /\ Len(sess[s].chunks) > 0
    /\ urls[s] = NoBlob

\* C10: when a session fails, an artifact that was held and usable when the
\* session began is still videoUrl, and still usable (not revoked).
C10_ArtifactKeptOnFailure ==
  [][ \A s \in Sessions :
        Fails(s) /\ hist'[s].prevLive =>
          videoUrl' = hist'[s].prevUrl /\ videoUrl' \notin revoked' ]_vars

\* object URLs created and not revoked
Unreleased == { u \in Sessions : urls[u] # NoBlob /\ u \notin revoked }

\* C11: at the step that installs a new artifact the artifact held until then
\* has been revoked, and at most one unrevoked artifact exists.
C11_ReleasedBeforeInstall ==
  [][\A s \in Sessions :
       Succeeds(s) /\ mounted' =>
         /\ videoUrl # NoUrl /\ videoUrl # s => videoUrl \in revoked'
         /\ Cardinality(Unreleased') <= 1]_vars

\* C16: within one session every tick's normalized value is strictly greater
\* than that of the tick before it.
C16_StrictOrder == \A s \in Sessions : hist[s].strict

\* C17: an installed artifact holds the frame drawn at normalized = 1.
C17_FinalFrameEncoded ==
  \A s \in Sessions :
    urls[s] # NoBlob =>
      \E k \in 1..Len(urls[s].parts) : urls[s].parts[k].final

\* C18: once a tick has seen normalized = 1 the session has no callback
\* requested, recorder.stop() has been called exactly once (and never more
\* than once in any session), and an artifact exists only after the stop event
\* of a recorder that was asked to stop.
C18_FinalizesOnce ==
  \A s \in Sessions :
    /\ hist[s].procEntries <= 1
    /\ sess[s].stopped =>
         ~sess[s].raf /\ hist[s].procEntries = 1 /\ hist[s].procNormalized
    /\ urls[s] # NoBlob => sess[s].enc = "done" /\ sess[s].stopped

\* a finished session whose artifact is installed, and a later refresh that ran
\* no callback of it
C18_Witness ==
  \E s \in Sessions :
    /\ sess[s].stopped /\ urls[s] # NoBlob /\ hist[s].procEntries = 1
    /\ frameStamp > sess[s].startStamp + sess[s].totalDuration

C20_ExposedUrlLive == mounted /\ videoUrl # NoUrl => videoUrl \notin revoked

\* the whitespace-delimited words of s, in order
WordsOf(s) ==
  LET ink == Inked(s)
      starts == { i \in ink : i - 1 \notin ink }
      ends == { i \in ink : i + 1 \notin ink }
      start(j) == CHOOSE i \in starts :
                    Cardinality({ q \in starts : q < i }) = j - 1
      end(j) == CHOOSE i \in ends :
                  Cardinality({ q \in ends : q < i }) = j - 1
  IN [ j \in 1..Cardinality(starts) |-> SubSeq(s, start(j), end(j)) ]

\* the words read across the lines from line k on
RECURSIVE WordsAcross(_, _)
WordsAcross(lines, k) ==
  IF k > Len(lines) THEN << >>
  ELSE WordsOf(lines[k]) \o WordsAcross(lines, k + 1)

\* C12: a line returned by wrapScriptIntoLines that is longer than 42
\* characters holds no whitespace: it is one word.
C12_LineBudget ==
  \A k \in 1..Len(preparedLines) :
    Len(preparedLines[k]) > LineBudget =>
      Inked(preparedLines[k]) = 1..Len(preparedLines[k])

\* an entry of more than 42 characters was packed: one line is an overlong
\* word, another line is within the budget
C12_Witness ==
  /\ \A i \in 1..Len(memoScript) : memoScript[i] \notin Terminators \cup {LF, CR}
  /\ \E k \in 1..Len(preparedLines) : Len(preparedLines[k]) > LineBudget
  /\ \E k \in 1..Len(preparedLines) : Len(preparedLines[k]) <= LineBudget

\* C13: for a script with a character that is not whitespace, the words read
\* across the returned lines are the words of the script, in the same order.
C13_WordsKept ==
  Inked(memoScript) # {} =>
    WordsAcross(preparedLines, 1) = WordsOf(memoScript)

\* an edited script of several words that was cut into several lines
C13_Witness ==
  /\ edits > 0
  /\ Len(WordsOf(memoScript)) > 2
  /\ Len(preparedLines) > 1
  /\ \E k \in 1..Len(preparedLines) : Len(WordsOf(preparedLines[k])) > 1

\* C14: wrapScriptIntoLines returns at least one line, and for an empty or
\* whitespace-only script exactly the fallback line.
C14_NeverEmpty ==
  /\ Len(preparedLines) >= 1
  /\ Inked(memoScript) = {} => preparedLines = << Fallback >>

\* the empty script, and a script of spaces and line breaks only
C14_Witness ==
  /\ Inked(memoScript) = {}
  /\ preparedLines = << Fallback >>
  /\ \/ memoScript = << >> /\ edits > 0
     \/ \E i, j \in 1..Len(memoScript) : memoScript[i] = " " /\ memoScript[j] = LF

\* C15: a line is transparent until normalized passes the start of its segment
\* and fully opaque from the end of its segment on, whatever the number of
\* lines; at normalized = 1 the last line is opaque and the bar is full.
C15_TextReveal ==
  LET count == Len(painted.alpha)
      p == painted.progress
  IN \A k \in 1..count :
       /\ FracLeq(p, Frac(k - 1, count)) => painted.alpha[k] = Zero
       /\ FracLeq(Frac(k, count), p) => painted.alpha[k] = One
       /\ p = One => painted.alpha[count] = One /\ painted.bar = ProgressWidth

\* C22: a recorder callback of a session that has ended (data or stop after
\* its error, error after its artifact) changes none of status, progress,
\* error, videoUrl and isGenerating, whether or not a newer session runs.
C22_LateCallbacksSilent ==
  [][\A s \in Sessions :
       sess[s].phase = "ended" /\ sess'[s] # sess[s] =>
         UNCHANGED << status, progress, error, videoUrl, isGenerating >>]_vars

\* the stop event of a failed session and the error event of a succeeded one
\* have arrived, the first while a newer session is running
C22_Witness ==
  /\ \E s, n \in Sessions :
        /\ s < n /\ sess[n].phase = "active" /\ sess[n].startStamp < clock
        /\ sess[s].outcome = "error" /\ sess[s].enc = "done"
        /\ sess[s].chunks # << >>
  /\ mounted

\* an error event after the artifact was installed
C22_LateError ==
  \E s \in Sessions : sess[s].outcome = "artifact" /\ sess[s].errored

\* the refreshes a session needs fit under MaxClock: the last refresh the
\* clock allows carries a timestamp at or after the session's end
Finishable(s) ==
  sess[s].startStamp + sess[s].totalDuration
    + Greatest(FrameLags) + Least(FrameGaps) <= MaxClock

\* C21: under Fairness every session that is recording ends, and when it ends
\* status is idle and isGenerating is false (as long as the component is
\* mounted, since the setters of an unmounted component do nothing).
C21_SessionTerminates ==
  \A s \in Sessions :
    (sess[s].phase = "active" /\ Finishable(s))
      ~> (sess[s].phase = "ended" /\ (mounted => status = "idle" /\ ~isGenerating))

\* a session that ran to normalized = 1 has ended with its artifact, and the
\* page is idle again
C21_Witness ==
  \E s \in Sessions :
    /\ Finishable(s) /\ sess[s].phase = "ended" /\ sess[s].outcome = "artifact"
    /\ hist[s].procEntries = 1
    /\ mounted /\ status = "idle" /\ ~isGenerating

====
